---------------------------- MODULE Spec2Model ----------------------------
(***************************************************************************)
(* Model of the Rendits local dynamic map: ldmlib.py (time conversion, the *)
(* CAM codec, the LDM store and its filtered generator) and main.py (the   *)
(* receiver and printer threads sharing one LDM).                          *)
(*                                                                         *)
(* Three specifications share the definitions below:                       *)
(*   SpecCodec  a caller constructing, encoding and decoding one CAM       *)
(*   SpecLib    one caller using an LDM: put, get, iter_cams, next         *)
(*   Spec       main.py: the receiver and the printer thread on one LDM    *)
(***************************************************************************)
EXTENDS Integers, Sequences, FiniteSets, TLC

VARIABLES
    now,            \* timestampits_now(): the wall clock, in ITS milliseconds
    ticks,          \* how many times the clock has advanced
    pc,             \* SpecCodec: position of the caller
    kwargs,         \* SpecCodec: the keyword arguments given to CAM(...)
    m_from_dct,     \* SpecCodec: outcome of CAM(**kwargs)
    b,              \* SpecCodec: outcome of m_from_dct.as_bytes(), or a raw buffer
    m_from_bytes,   \* SpecCodec: outcome of CAM.from_bytes(b)
    gdt_call,       \* SpecCodec: argument and outcome of the last gdt_now(ts)
    cams,           \* LDM.cams: the dict, as its entries in insertion order
    stamps,         \* history: per station, when the sender stamped the stored
                    \* CAM's GDT and when the CAM object was constructed
    puts,           \* history: how many __setitem__ calls were made, and the
                    \* CAM most recently assigned to each station
    gen,            \* the iter_cams generator object of the caller / printer
    yielded,        \* the CAMs the generator has yielded so far
    outcome,        \* outcome of the caller's last LDM operation
    net,            \* Spec: datagrams sent and not yet received
    receiver,       \* Spec: the receiver thread
    printer         \* Spec: the printer thread

codecVars == <<pc, kwargs, m_from_dct, b, m_from_bytes, gdt_call>>
ldmVars   == <<cams, stamps, puts, gen, yielded, outcome>>
mainVars  == <<net, receiver, printer>>
vars      == <<now, ticks, codecVars, ldmVars, mainVars>>

----------------------------------------------------------------------------
(* Bounds of the model.                                                    *)

\* how many times the clock advances in one behaviour
MaxTicks == 1
\* how many __setitem__ calls one behaviour of SpecLib makes
MaxPuts == 3
\* how many datagrams the senders emit in one behaviour of Spec
MaxSent == 3
\* how many periods the printer runs in one behaviour of Spec
MaxPeriods == 2

----------------------------------------------------------------------------
(* Time conversion, ldmlib.py lines 10-36.                                 *)

\* the GDT modulus: the literal 65536 of gdt_now and timestampits_from_gdt
GdtModulus == 65536

\* gdt_now(timestampits), evaluated when the clock reads clock
gdt_now(timestampits, clock) == clock % GdtModulus

\* timestampits_from_gdt(gdt), evaluated when the clock reads clock
timestampits_from_gdt(gdt, clock) ==
    LET ts == clock - (clock % GdtModulus)
    IN  ts + gdt

----------------------------------------------------------------------------
(* The CAM class, ldmlib.py lines 38-175.                                  *)

__attrs__ == <<
    "message_id", "station_id", "gen_delta_time_millis", "container_mask",
    "station_type", "latitude", "longitude", "semi_major_axis_confidence",
    "semi_minor_axis_confidence", "semi_major_orientation", "altitude",
    "heading", "heading_confidence", "speed", "speed_confidence",
    "vehicle_length", "vehicle_width", "longitudinal_acceleration",
    "longitudinal_acceleration_confidence", "yaw_rate", "yaw_rate_confidence",
    "vehicle_role" >>

unavailable_indicators == [
    container_mask |-> 0,
    station_type |-> 0,
    latitude |-> 900000001,
    longitude |-> 1800000001,
    semi_major_axis_confidence |-> 4095,
    semi_minor_axis_confidence |-> 4095,
    semi_major_orientation |-> 3601,
    altitude |-> 800001,
    heading |-> 3601,
    heading_confidence |-> 127,
    speed |-> 16383,
    speed_confidence |-> 127,
    vehicle_length |-> 1023,
    vehicle_width |-> 62,
    longitudinal_acceleration |-> 161,
    longitudinal_acceleration_confidence |-> 102,
    yaw_rate |-> 32767,
    yaw_rate_confidence |-> 8,
    vehicle_role |-> 0 ]

\* a format with every field but message_id four bytes wide
bytes_format_all_int == [i \in 1..Len(__attrs__) |-> IF i = 1 THEN "b" ELSE "i"]
\* '!biibiiiiiiiiiiiiiiiiii': big-endian, one format character per field
bytes_format == <<
    "b", "i", "i", "b", "i", "i", "i", "i", "i", "i", "i",
    "i", "i", "i", "i", "i", "i", "i", "i", "i", "i", "i" >>

\* outcomes of a call: a returned value or a raised exception
Return(v) == [tag |-> "return", val |-> v]
Raise(exc, msg) == [tag |-> "raise", exc |-> exc, msg |-> msg]
NotCalled == [tag |-> "none"]
Returned(r) == r.tag = "return"
Raised(r) == r.tag = "raise"

\* struct: the width in bytes of a format character
Width(ch) == IF ch = "b" THEN 1 ELSE 4

\* struct: the range a format character accepts
MinOf(ch) == IF ch = "b" THEN -128 ELSE -2147483647 - 1
MaxOf(ch) == IF ch = "b" THEN 127 ELSE 2147483647
Fits(ch, v) == MinOf(ch) <= v /\ v <= MaxOf(ch)

\* struct.calcsize(fmt)
RECURSIVE calcsize(_)
calcsize(fmt) ==
    IF fmt = << >> THEN 0 ELSE Width(Head(fmt)) + calcsize(Tail(fmt))

\* struct: one value as big-endian two's complement bytes
PackOne(ch, v) ==
    IF ch = "b"
    THEN << v % 256 >>
    ELSE << (v \div 16777216) % 256, (v \div 65536) % 256,
            (v \div 256) % 256, v % 256 >>

\* struct: big-endian two's complement bytes as one value
Signed8(x) == IF x >= 128 THEN x - 256 ELSE x
UnpackOne(ch, bs) ==
    IF ch = "b"
    THEN Signed8(bs[1])
    ELSE Signed8(bs[1]) * 16777216 + bs[2] * 65536 + bs[3] * 256 + bs[4]

\* struct.pack(fmt, *values): the bytes, assuming every value fits
RECURSIVE PackAll(_, _)
PackAll(fmt, values) ==
    IF fmt = << >> THEN << >>
    ELSE PackOne(Head(fmt), Head(values)) \o PackAll(Tail(fmt), Tail(values))

\* struct.unpack(fmt, bs): the values, assuming Len(bs) = calcsize(fmt)
RECURSIVE UnpackAll(_, _)
UnpackAll(fmt, bs) ==
    IF fmt = << >> THEN << >>
    ELSE LET w == Width(Head(fmt))
         IN  << UnpackOne(Head(fmt), SubSeq(bs, 1, w)) >>
             \o UnpackAll(Tail(fmt), SubSeq(bs, w + 1, Len(bs)))

\* dict.update: the entries of upd override those of d
Update(d, upd) == upd @@ d

\* CAM.__init__ without its two required-field checks
CAM_init_no_required_check(kw, clock) ==
    LET dict1 == Update(unavailable_indicators, kw)
        kw1   == IF "message_id" \notin DOMAIN kw
                 THEN Update(kw, [message_id |-> 2]) ELSE kw
    IN  IF kw1["message_id"] # 2
        THEN Raise("ValueError", "message_id must be 2")
        ELSE Return(dict1)
\* CAM.__init__(**kwargs) when the clock reads clock: the new object's
\* __dict__, or the exception raised
CAM_init(kw, clock) ==
    LET dict1 == Update(unavailable_indicators, kw)
        kw1   == IF "message_id" \notin DOMAIN kw
                 THEN Update(kw, [message_id |-> 2]) ELSE kw
    IN  IF kw1["message_id"] # 2
        THEN Raise("ValueError", "message_id must be 2")
        ELSE IF "station_id" \notin DOMAIN kw1
        THEN Raise("ValueError", "station_id is required")
        ELSE IF "gen_delta_time_millis" \notin DOMAIN kw1
        THEN Raise("ValueError", "gen_delta_time_millis is required")
        ELSE Return(Update(dict1,
                 [timestampits |->
                     timestampits_from_gdt(kw1["gen_delta_time_millis"], clock)]))

\* CAM.as_bytes(self): the packed bytes, or the exception raised
as_bytes(cam) ==
    LET n == Len(__attrs__)
    IN  IF \E i \in 1..n : __attrs__[i] \notin DOMAIN cam
        THEN Raise("KeyError", "field")
        ELSE IF \E i \in 1..n : ~Fits(bytes_format[i], cam[__attrs__[i]])
        THEN Raise("struct.error", "argument out of range")
        ELSE Return(PackAll(bytes_format, [i \in 1..n |-> cam[__attrs__[i]]]))

\* CAM.from_bytes(b) when the clock reads clock; b is always of type bytes
\* here, so the TypeError of the isinstance test is never raised
from_bytes(bs, clock) ==
    IF Len(bs) # calcsize(bytes_format)
    THEN Raise("struct.error", "unpack requires a buffer of calcsize bytes")
    ELSE LET values == UnpackAll(bytes_format, bs)
             kw == [f \in { __attrs__[i] : i \in 1..Len(__attrs__) } |->
                       values[CHOOSE i \in 1..Len(__attrs__) : __attrs__[i] = f]]
         IN  CAM_init(kw, clock)

\* CAM.__getitem__(self, field)
CAM_getitem(cam, field) ==
    IF field \in DOMAIN cam THEN Return(cam[field]) ELSE Raise("KeyError", field)

\* CAM.age(self, timestampits)
age(cam, timestampits) == timestampits - cam["timestampits"]

\* CAM.__eq__(self, other); a field missing from either __dict__ raises
CAM_eq(self, other) ==
    IF \E i \in 1..Len(__attrs__) :
           __attrs__[i] \notin DOMAIN self \/ __attrs__[i] \notin DOMAIN other
    THEN Raise("KeyError", "field")
    ELSE Return(\A i \in 1..Len(__attrs__) :
                    self[__attrs__[i]] = other[__attrs__[i]])


----------------------------------------------------------------------------
(* The LDM class, ldmlib.py lines 177-240.  The dict self.cams is the      *)
(* sequence of its entries in insertion order.                             *)

\* an optional argument: None, or a value
None == << >>
Some(v) == << v >>

HasKey(d, station_id) == \E i \in 1..Len(d) : d[i].key = station_id
Keys(d) == { d[i].key : i \in 1..Len(d) }

\* LDM.__getitem__(self, station_id)
LDM_getitem(d, station_id) ==
    IF HasKey(d, station_id)
    THEN Return(d[CHOOSE i \in 1..Len(d) : d[i].key = station_id].value)
    ELSE Raise("KeyError", "station_id")

\* an assignment that keeps the entry a station already has
LDM_setitem_keep_first(d, station_id, cam) ==
    IF HasKey(d, station_id) THEN d
    ELSE Append(d, [key |-> station_id, value |-> cam])
\* LDM.__setitem__(self, station_id, cam): the dict after the assignment
LDM_setitem(d, station_id, cam) ==
    IF HasKey(d, station_id)
    THEN [i \in 1..Len(d) |->
             IF d[i].key = station_id
             THEN [key |-> station_id, value |-> cam] ELSE d[i]]
    ELSE Append(d, [key |-> station_id, value |-> cam])

\* cam.age(timestampits=timestampits) > max_age, with None for math.inf
AgeExceeds(cam, timestampits, max_age) ==
    /\ max_age # None
    /\ age(cam, timestampits) > max_age[1]

Abs(x) == IF x < 0 THEN -x ELSE x

\* a comparison that drops the CAMs at exactly max_distance
DistanceExceeds_at_bound(cam, position, max_distance) ==
    /\ max_distance # None
    /\ LET dx == Abs(cam["longitude"] - position[1])
           dy == Abs(cam["latitude"] - position[2])
           m  == max_distance[1]
       IN  m < 0 \/ dx >= m \/ dy >= m \/ dx * dx + dy * dy >= m * m
\* math.sqrt(pow(cam['longitude'] - longitude, 2)
\*           + pow(cam['latitude'] - latitude, 2)) > max_distance,
\* with None for math.inf; the squares are compared, and are not computed
\* when one coordinate alone is farther than max_distance
DistanceExceeds(cam, position, max_distance) ==
    /\ max_distance # None
    /\ LET dx == Abs(cam["longitude"] - position[1])
           dy == Abs(cam["latitude"] - position[2])
           m  == max_distance[1]
       IN  m < 0 \/ dx > m \/ dy > m \/ dx * dx + dy * dy > m * m

\* calling iter_cams(position, max_distance, max_age) runs none of its
\* body: it returns a generator object whose frame holds the arguments as
\* its locals (args keeps them as they were passed)
iter_cams(position, max_distance, max_age) ==
    [tag |-> "generator", st |-> "created",
     args |-> [position |-> position, max_distance |-> max_distance,
               max_age |-> max_age],
     position |-> position, max_distance |-> max_distance, max_age |-> max_age,
     timestampits |-> 0, di_used |-> 0, di_pos |-> 0]

\* no generator object yet
NoGenerator ==
    [tag |-> "none", st |-> "none",
     args |-> [position |-> None, max_distance |-> None, max_age |-> None],
     position |-> None, max_distance |-> None, max_age |-> None,
     timestampits |-> 0, di_used |-> 0, di_pos |-> 0]

Closed(g) == [g EXCEPT !.st = "closed"]

\* the for loop of iter_cams from the dict iterator's position on, up to
\* the next yield, the end of the dict, or the iterator's refusal of a
\* dict whose size changed: the generator afterwards and what next() gives
RECURSIVE Loop(_, _)
Loop(g, d) ==
    IF g.di_used # Len(d)
    THEN [gen |-> Closed(g),
          res |-> Raise("RuntimeError", "dictionary changed size during iteration")]
    ELSE IF g.di_pos > Len(d)
    THEN [gen |-> Closed(g), res |-> Raise("StopIteration", "")]
    ELSE LET cam == d[g.di_pos].value
             g1  == [g EXCEPT !.di_pos = @ + 1]
         IN  IF AgeExceeds(cam, g.timestampits, g.max_age) THEN Loop(g1, d)
             ELSE IF DistanceExceeds(cam, g.position, g.max_distance) THEN Loop(g1, d)
             ELSE [gen |-> [g1 EXCEPT !.st = "suspended"], res |-> Return(cam)]

\* next(g) when the dict is d and the clock reads clock.  The first next
\* runs the body from its top: the argument checks, the clock reading and
\* the creation of the dict iterator.
GenNext(g, d, clock) ==
    IF g.st = "closed"
    THEN [gen |-> g, res |-> Raise("StopIteration", "")]
    ELSE IF g.st = "suspended"
    THEN Loop(g, d)
    ELSE IF g.max_distance # None /\ g.position = None
    THEN [gen |-> Closed(g),
          res |-> Raise("ValueError", "position must be given if max_distance is.")]
    ELSE Loop([g EXCEPT
                 !.max_distance = IF g.position = None THEN None ELSE @,
                 !.position = IF g.position = None THEN <<0, 0>> ELSE @,
                 !.timestampits = clock,
                 !.di_used = Len(d),
                 !.di_pos = 1], d)

----------------------------------------------------------------------------
(* The clock.                                                              *)

\* the clock reading a behaviour starts from: 4900 ms before the end of a
\* 65536 ms window
NowInit == { 3 * GdtModulus + 60636 }
\* the steps by which the clock advances
Deltas == { 5000 }

\* time passes between two steps of the program
Tick ==
    /\ ticks < MaxTicks
    /\ \E d \in Deltas : now' = now + d
    /\ ticks' = ticks + 1

----------------------------------------------------------------------------
(* SpecCodec: a caller constructs a CAM from keyword arguments, encodes    *)
(* it and decodes the bytes (tests/ldmlib_tests.py), or decodes a buffer   *)
(* that as_bytes did not produce (main.py, receiver).                      *)

Empty == [x \in {} |-> 0]
\* either no entry for field, or one entry with a value of S
Opt(field, S) == { Empty } \cup { [x \in {field} |-> v] : v \in S }

Index(field) == CHOOSE i \in 1..Len(__attrs__) : __attrs__[i] = field
Names(from) == { __attrs__[i] : i \in from..Len(__attrs__) }

\* the other optional fields: all omitted; all supplied as the unit test
\* supplies them (field number i with value i, counted from 0); some at the
\* ends of their range
Profiles == {
    Empty,
    [f \in Names(5) |-> Index(f) - 1],
    [latitude |-> -900000000, longitude |-> -1800000000,
     altitude |-> -2147483647 - 1, yaw_rate |-> 2147483647,
     vehicle_role |-> -1] }

KwargsSet == {
    Update(Update(Update(Update(p, cm), g), s), m) :
        m  \in Opt("message_id", {2, 3}),
        s  \in Opt("station_id", {1, 2147483647}),
        g  \in Opt("gen_delta_time_millis", {0, 65535}),
        cm \in Opt("container_mask", {3, -128, 1000}),
        p  \in Profiles }

\* the arguments gdt_now is called with
TsArgs == { 0, 65535, GdtModulus + 7 }

NoOutcome == [op |-> "none", key |-> 0, nputs |-> 0, res |-> NotCalled]

InitLdmIdle ==
    /\ cams = << >>
    /\ stamps = Empty
    /\ puts = [n |-> 0, last |-> Empty]
    /\ gen = NoGenerator
    /\ yielded = << >>
    /\ outcome = NoOutcome

\* the threads of main.py before they are started
NoReceiver == [pc |-> "idle", data |-> << >>, t |-> 0, at |-> 0, cam |-> NotCalled]
NoPrinter == [pc |-> "idle", periods |-> 0, at_call |-> {}, cam |-> NotCalled]

InitMainIdle ==
    /\ net = [sent |-> 0, inflight |-> {}]
    /\ receiver = NoReceiver
    /\ printer = NoPrinter

InitCodecIdle ==
    /\ pc = "idle"
    /\ kwargs = Empty
    /\ m_from_dct = NotCalled
    /\ b = NotCalled
    /\ m_from_bytes = NotCalled
    /\ gdt_call = NotCalled

InitCodec ==
    /\ now \in NowInit
    /\ ticks = 0
    /\ pc = "construct"
    /\ kwargs \in KwargsSet
    /\ m_from_dct = NotCalled
    /\ b = NotCalled
    /\ m_from_bytes = NotCalled
    /\ gdt_call = NotCalled
    /\ InitLdmIdle
    /\ InitMainIdle

\* m_from_dct = ldmlib.CAM(**dct)
Construct ==
    /\ pc = "construct"
    /\ m_from_dct' = CAM_init(kwargs, now)
    /\ pc' = IF Returned(m_from_dct') THEN "encode" ELSE "done"
    /\ UNCHANGED <<now, ticks, kwargs, b, m_from_bytes, gdt_call, ldmVars, mainVars>>

\* b = m_from_dct.as_bytes()
Encode ==
    /\ pc = "encode"
    /\ b' = as_bytes(m_from_dct.val)
    /\ pc' = IF Returned(b') THEN "decode" ELSE "done"
    /\ UNCHANGED <<now, ticks, kwargs, m_from_dct, m_from_bytes, gdt_call, ldmVars, mainVars>>

\* the buffers a socket can deliver instead of the encoded CAM: one byte
\* short, one byte long, or with another message_id byte
RawBuffers(bs) ==
    { SubSeq(bs, 1, Len(bs) - 1), bs \o <<0>>, <<3>> \o Tail(bs), <<0>> \o Tail(bs) }

\* data = sock.recv(256): the datagram is whatever a peer sent
Recv ==
    /\ pc = "decode"
    /\ Returned(b)
    /\ \E raw \in RawBuffers(b.val) : b' = [tag |-> "raw", val |-> raw]
    /\ UNCHANGED <<pc, now, ticks, kwargs, m_from_dct, m_from_bytes, gdt_call, ldmVars, mainVars>>

\* m_from_bytes = ldmlib.CAM.from_bytes(b)
Decode ==
    /\ pc = "decode"
    /\ m_from_bytes' = from_bytes(b.val, now)
    /\ pc' = "done"
    /\ UNCHANGED <<now, ticks, kwargs, m_from_dct, b, gdt_call, ldmVars, mainVars>>

\* gdt_now(ts), called once at any moment
GdtNow ==
    /\ gdt_call = NotCalled
    /\ \E ts \in TsArgs :
           gdt_call' = [tag |-> "return", ts |-> ts, val |-> gdt_now(ts, now)]
    /\ UNCHANGED <<pc, now, ticks, kwargs, m_from_dct, b, m_from_bytes, ldmVars, mainVars>>

TickCodec == Tick /\ UNCHANGED <<codecVars, ldmVars, mainVars>>

NextCodec ==
    \/ Construct
    \/ Encode
    \/ Recv
    \/ Decode
    \/ GdtNow
    \/ TickCodec

SpecCodec == InitCodec /\ [][NextCodec]_vars

----------------------------------------------------------------------------
(* SpecLib: one caller uses an LDM: it constructs CAMs and assigns them,   *)
(* looks stations up, calls iter_cams once and consumes the generator.     *)

StationIds == { 1, 2, 3 }
\* a station no CAM is ever assigned to
UnknownStation == 1 + CHOOSE k \in StationIds : \A j \in StationIds : j <= k

\* where a station's CAM says it is, as (longitude, latitude)
Positions(k) ==
    IF k = 1 THEN { <<0, 0>> }
    ELSE IF k = 2 THEN { <<10, 0>> }
    ELSE { <<100, 0>>, <<6, 8>> }

\* how long before its construction a CAM's GDT was stamped, in ms
Staleness == { 0, 5000 }

\* the GDT a sender puts in a CAM it generates when its clock reads t
Stamp(t) == gdt_now(t, t)

\* the arguments iter_cams is called with
PositionArgs == { None, Some(0) \o Some(0) }
MaxDistanceArgs == { None, Some(10), Some(20) }
MaxAgeArgs == { None, Some(1000), Some(10000) }

InitLib ==
    /\ now \in NowInit
    /\ ticks = 0
    /\ InitCodecIdle
    /\ InitLdmIdle
    /\ InitMainIdle

\* cam = CAM(...); ldm[cam['station_id']] = cam
LibPut ==
    /\ puts.n < MaxPuts
    /\ gen.st \in { "none", "created" }
    /\ \E k \in StationIds, ago \in Staleness :
         \E p \in Positions(k) :
           LET t == now - ago
               r == CAM_init([message_id |-> 2, station_id |-> k,
                              gen_delta_time_millis |-> Stamp(t),
                              longitude |-> p[1], latitude |-> p[2]], now)
               key == r.val["station_id"]
           IN  /\ cams' = LDM_setitem(cams, key, r.val)
               /\ puts' = [n |-> puts.n + 1,
                            last |-> Update(puts.last, [x \in {key} |-> r.val])]
               /\ stamps' = Update(stamps, [x \in {key} |-> [t |-> t, at |-> now]])
               /\ outcome' = [op |-> "put", key |-> key, nputs |-> puts'.n,
                               res |-> Return("None")]
    /\ UNCHANGED <<now, ticks, gen, yielded, codecVars, mainVars>>

\* ldm[k]
LibGet ==
    /\ gen.st = "none"
    /\ \E k \in StationIds \cup { UnknownStation } :
           outcome' = [op |-> "get", key |-> k, nputs |-> puts.n,
                       res |-> LDM_getitem(cams, k)]
    /\ UNCHANGED <<now, ticks, cams, stamps, puts, gen, yielded, codecVars, mainVars>>

\* g = ldm.iter_cams(position, max_distance, max_age)
LibIterCams ==
    /\ gen = NoGenerator
    /\ \E p \in PositionArgs, md \in MaxDistanceArgs, ma \in MaxAgeArgs :
           gen' = iter_cams(p, md, ma)
    /\ outcome' = [op |-> "iter_cams", key |-> 0, nputs |-> puts.n,
                    res |-> Return("generator")]
    /\ UNCHANGED <<now, ticks, cams, stamps, puts, yielded, codecVars, mainVars>>

\* next(g)
LibNext ==
    /\ gen # NoGenerator
    /\ LET r == GenNext(gen, cams, now)
       IN  /\ gen' = r.gen
           /\ yielded' = IF Returned(r.res) THEN Append(yielded, r.res.val)
                          ELSE yielded
           /\ outcome' = [op |-> "next", key |-> 0, nputs |-> puts.n,
                           res |-> r.res]
    /\ UNCHANGED <<now, ticks, cams, stamps, puts, codecVars, mainVars>>

TickLib == Tick /\ UNCHANGED <<codecVars, ldmVars, mainVars>>

NextLib ==
    \/ LibPut
    \/ LibGet
    \/ LibIterCams
    \/ LibNext
    \/ TickLib

SpecLib == InitLib /\ [][NextLib]_vars

----------------------------------------------------------------------------
(* Spec: main.py.  The receiver thread decodes the datagrams it receives   *)
(* and assigns the CAMs to the LDM; the printer thread periodically        *)
(* iterates over the same LDM.  Neither holds a lock.                      *)

\* the stations that send CAMs
Senders == { 1, 2 }

\* what sock.recv(256) returns of a datagram
RecvLimit == 256
Truncated(data) ==
    IF Len(data) > RecvLimit THEN SubSeq(data, 1, RecvLimit) ELSE data

\* the datagram a station sends when its clock reads t: a CAM stamped
\* with the GDT of t, as the bytes of as_bytes
Datagram(k, t) ==
    as_bytes(CAM_init([message_id |-> 2, station_id |-> k,
                       gen_delta_time_millis |-> Stamp(t)], t).val).val

Init ==
    /\ now \in NowInit
    /\ ticks = 0
    /\ InitCodecIdle
    /\ InitLdmIdle
    /\ net = [sent |-> 0, inflight |-> {}]
    /\ receiver = [NoReceiver EXCEPT !.pc = "recv"]
    /\ printer = [NoPrinter EXCEPT !.pc = "sleep"]

\* a station sends a CAM, or some peer sends two bytes that are no CAM
Send ==
    /\ net.sent < MaxSent
    /\ \E data \in { Datagram(k, now) : k \in Senders } \cup { <<2, 0>> } :
           net' = [sent |-> net.sent + 1,
                   inflight |-> net.inflight \cup { [data |-> data, t |-> now] }]
    /\ UNCHANGED <<now, ticks, receiver, printer, codecVars, ldmVars>>

\* data = sock.recv(256)
ReceiverRecv ==
    /\ receiver.pc = "recv"
    /\ \E d \in net.inflight :
           /\ net' = [net EXCEPT !.inflight = @ \ { d }]
           /\ receiver' = [receiver EXCEPT !.pc = "decode",
                               !.data = Truncated(d.data), !.t = d.t]
    /\ UNCHANGED <<now, ticks, printer, codecVars, ldmVars>>

\* cam = ldmlib.CAM.from_bytes(data); an exception ends the thread
ReceiverDecode ==
    /\ receiver.pc = "decode"
    /\ LET r == from_bytes(receiver.data, now)
       IN  receiver' = [receiver EXCEPT
                           !.pc = IF Returned(r) THEN "assign" ELSE "dead",
                           !.at = now, !.cam = r]
    /\ UNCHANGED <<now, ticks, net, printer, codecVars, ldmVars>>

\* ldm[cam['station_id']] = cam
ReceiverAssign ==
    /\ receiver.pc = "assign"
    /\ LET cam == receiver.cam.val
           key == cam["station_id"]
       IN  /\ cams' = LDM_setitem(cams, key, cam)
           /\ stamps' = Update(stamps,
                             [x \in {key} |-> [t |-> receiver.t, at |-> receiver.at]])
           /\ puts' = [n |-> puts.n + 1,
                        last |-> Update(puts.last, [x \in {key} |-> cam])]
    /\ receiver' = [receiver EXCEPT !.pc = "recv"]
    /\ UNCHANGED <<now, ticks, net, printer, gen, yielded, outcome, codecVars>>

\* the printer after next(g) gave r: in the loop body with the CAM, asleep
\* again after StopIteration, ended by any other exception
AfterNext(p, r) ==
    IF Returned(r)
    THEN [p EXCEPT !.pc = "body", !.cam = r]
    ELSE IF r.exc = "StopIteration"
    THEN [p EXCEPT !.pc = "sleep", !.periods = @ + 1, !.cam = NotCalled]
    ELSE [p EXCEPT !.pc = "dead", !.cam = r]

\* time.sleep(2) returns; for cam in ldm.iter_cams(): the call and the
\* first next of the for statement
PrinterIter ==
    /\ printer.pc = "sleep"
    /\ printer.periods < MaxPeriods
    /\ LET r == GenNext(iter_cams(None, None, None), cams, now)
       IN  /\ gen' = r.gen
           /\ yielded' = IF Returned(r.res) THEN << r.res.val >> ELSE << >>
           /\ printer' = AfterNext([printer EXCEPT !.at_call = Keys(cams)], r.res)
    /\ UNCHANGED <<now, ticks, net, receiver, cams, stamps, puts, outcome, codecVars>>

\* station_id = cam['station_id']; age = cam.age(); logging.info(...)
PrinterBody ==
    /\ printer.pc = "body"
    /\ Returned(CAM_getitem(printer.cam.val, "station_id"))
    /\ printer' = [printer EXCEPT !.pc = "for"]
    /\ UNCHANGED <<now, ticks, net, receiver, codecVars, ldmVars>>

\* the next of the for statement after a pass through the body
PrinterNext ==
    /\ printer.pc = "for"
    /\ LET r == GenNext(gen, cams, now)
       IN  /\ gen' = r.gen
           /\ yielded' = IF Returned(r.res) THEN Append(yielded, r.res.val)
                          ELSE yielded
           /\ printer' = AfterNext(printer, r.res)
    /\ UNCHANGED <<now, ticks, net, receiver, cams, stamps, puts, outcome, codecVars>>

TickMain == Tick /\ UNCHANGED <<codecVars, ldmVars, mainVars>>

Next ==
    \/ Send
    \/ ReceiverRecv
    \/ ReceiverDecode
    \/ ReceiverAssign
    \/ PrinterIter
    \/ PrinterBody
    \/ PrinterNext
    \/ TickMain

Spec == Init /\ [][Next]_vars

----------------------------------------------------------------------------
(* Properties of the codec, checked under SpecCodec.                       *)

\* a valid field assignment: the required fields supplied, the GDT in
\* 0..65535, message_id omitted or 2, every supplied field fitting the
\* format character as_bytes packs it with
ValidAssignment(kw) ==
    /\ "station_id" \in DOMAIN kw
    /\ "gen_delta_time_millis" \in DOMAIN kw
    /\ kw["gen_delta_time_millis"] \in 0..65535
    /\ "message_id" \in DOMAIN kw => kw["message_id"] = 2
    /\ \A f \in DOMAIN kw \cap Names(1) : Fits(bytes_format[Index(f)], kw[f])

\* C1: for every CAM constructed from a valid field assignment, as_bytes
\* succeeds and from_bytes of its bytes equals the CAM under __eq__, at
\* whatever clock reading from_bytes runs.
C1_RoundTrip ==
    (ValidAssignment(kwargs) /\ Returned(m_from_dct)) =>
        /\ ~Raised(b)
        /\ (pc = "done" /\ Returned(b)) =>
               /\ Returned(m_from_bytes)
               /\ CAM_eq(m_from_dct.val, m_from_bytes.val) = Return(TRUE)

\* C2: a constructed CAM has a readable value for every wire field: the
\* supplied value, else 2 for message_id, else the unavailable indicator.
C2_DefaultSubstitution ==
    Returned(m_from_dct) =>
        \A f \in Names(1) :
            CAM_getitem(m_from_dct.val, f) =
                Return(IF f \in DOMAIN kwargs THEN kwargs[f]
                       ELSE IF f = "message_id" THEN 2
                       ELSE unavailable_indicators[f])

\* C7: gdt_now(ts) returns ts mod 65536, whatever the clock reads.
C7_GdtFromIts ==
    Returned(gdt_call) => gdt_call.val = gdt_call.ts % 65536

\* the offset (from 1) of field number i in a buffer that holds message_id
\* and container_mask in one byte each and every other field in four
OffsetOf(i) ==
    IF i = 1 THEN 1
    ELSE IF i <= 3 THEN 2 + 4 * (i - 2)
    ELSE IF i = 4 THEN 10
    ELSE 11 + 4 * (i - 5)

\* the signed big-endian integer held by the w bytes of bs from offset off
BigEndianAt(bs, off, w) ==
    LET top == IF bs[off] >= 128 THEN bs[off] - 256 ELSE bs[off]
    IN  IF w = 1 THEN top
        ELSE ((top * 256 + bs[off + 1]) * 256 + bs[off + 2]) * 256 + bs[off + 3]

Refused(kw) ==
    \/ "message_id" \in DOMAIN kw /\ kw["message_id"] # 2
    \/ "station_id" \notin DOMAIN kw
    \/ "gen_delta_time_millis" \notin DOMAIN kw

\* C10: construction raises exactly when message_id is supplied and is not
\* 2 (the message_id error), or station_id or gen_delta_time_millis is
\* omitted (a required-field error); from_bytes of a correctly sized
\* buffer raises the message_id error when its first byte is not 2.
C10_ConstructionValidation ==
    /\ m_from_dct # NotCalled =>
           /\ Raised(m_from_dct) <=> Refused(kwargs)
           /\ Raised(m_from_dct) =>
                  /\ m_from_dct.exc = "ValueError"
                  /\ ("message_id" \in DOMAIN kwargs /\ kwargs["message_id"] # 2)
                         => m_from_dct.msg = "message_id must be 2"
                  /\ ("message_id" \in DOMAIN kwargs => kwargs["message_id"] = 2)
                         => m_from_dct.msg \in { "station_id is required",
                                "gen_delta_time_millis is required" }
    /\ (m_from_bytes # NotCalled /\ Len(b.val) = calcsize(bytes_format)) =>
           IF b.val[1] # 2
           THEN m_from_bytes = Raise("ValueError", "message_id must be 2")
           ELSE Returned(m_from_bytes)

\* C10 witness: a correctly sized buffer with message_id byte 3 was decoded
\* and refused
C10_Witness ==
    /\ pc = "done"
    /\ b.tag = "raw"
    /\ Len(b.val) = calcsize(bytes_format)
    /\ b.val[1] = 3
    /\ Raised(m_from_bytes)

----------------------------------------------------------------------------
(* Properties of the store and its generator, checked under SpecLib.       *)

\* the generator ran to the end of the dict
Exhausted ==
    /\ gen.st = "closed"
    /\ outcome.op = "next"
    /\ outcome.res = Raise("StopIteration", "")

ValidArgs(a) == ~(a.max_distance # None /\ a.position = None)

\* how many times cam occurs in seq
Occurrences(seq, cam) == Cardinality({ j \in 1..Len(seq) : seq[j] = cam })

\* C3: a CAM constructed less than 65536 ms after its GDT was stamped at t
\* has the derived timestamp t, so its age at now is now - t; hence, of an
\* unfiltered-by-distance iteration run 5000 ms after the stamping, it is
\* left out with max_age 1000 and yielded with max_age 10000.
C3_TimestampRecovery ==
    /\ \A i \in 1..Len(cams) :
           LET s == stamps[cams[i].key]
               c == cams[i].value
           IN  (0 <= s.at - s.t /\ s.at - s.t < 65536) =>
                   /\ c["timestampits"] = s.t
                   /\ age(c, now) = now - s.t
    /\ (Exhausted /\ gen.args.position = None /\ gen.args.max_distance = None) =>
           \A i \in 1..Len(cams) :
               LET s == stamps[cams[i].key]
                   c == cams[i].value
               IN  (s.at = gen.timestampits /\ s.t = s.at - 5000) =>
                       /\ gen.args.max_age = Some(1000) => Occurrences(yielded, c) = 0
                       /\ gen.args.max_age = Some(10000) => Occurrences(yielded, c) = 1

\* C5: iter_cams called with max_distance and without position fails with
\* the error as the outcome of the call itself, and yields nothing.
C5_InvalidFilterArgs ==
    (outcome.op = "iter_cams" /\ ~ValidArgs(gen.args)) =>
        /\ Raised(outcome.res)
        /\ outcome.res.exc = "ValueError"
        /\ yielded = << >>

\* whether the filter of a call with arguments a, run at clock reading ts,
\* lets cam through
Passes(cam, a, ts) ==
    /\ a.max_age # None => ts - cam["timestampits"] <= a.max_age[1]
    /\ (a.max_distance # None /\ a.position # None) =>
           LET dx == cam["longitude"] - a.position[1]
               dy == cam["latitude"] - a.position[2]
               m  == a.max_distance[1]
           IN  m >= 0 /\ dx * dx + dy * dy <= m * m

LastWrite(k) ==
    IF k \in DOMAIN puts.last THEN Return(puts.last[k])
    ELSE Raise("KeyError", "station_id")

\* C9: after any sequence of assignments ldm[k] is the CAM most recently
\* assigned to k, for every k ever assigned; the store holds exactly one
\* entry per such k; ldm[k] for any other k raises KeyError.
C9_LastWriteWins ==
    /\ \A k \in StationIds \cup { UnknownStation } : LDM_getitem(cams, k) = LastWrite(k)
    /\ \A i, j \in 1..Len(cams) : cams[i].key = cams[j].key => i = j
    /\ Keys(cams) = DOMAIN puts.last
    /\ (outcome.op = "get" /\ outcome.nputs = puts.n) =>
           outcome.res = LastWrite(outcome.key)

\* C9 witness: three assignments to two stations, then a successful lookup
C9_Witness ==
    /\ puts.n = 3
    /\ Len(cams) = 2
    /\ outcome.op = "get"
    /\ outcome.nputs = 3
    /\ Returned(outcome.res)
    /\ stamps[outcome.key].at > stamps[outcome.key].t

----------------------------------------------------------------------------
(* Properties of the two threads of main.py, checked under Spec.           *)

\* C4: whatever the receiver assigns while the printer iterates, the
\* iteration ends without an exception, having yielded exactly one CAM for
\* each station that was in the store when iter_cams was called, and the
\* printer goes on to its next period.
C4_SafeIteration ==
    /\ printer.pc # "dead"
    /\ (printer.pc = "sleep" /\ printer.periods > 0) =>
           /\ { yielded[j]["station_id"] : j \in 1..Len(yielded) } = printer.at_call
           /\ Len(yielded) = Cardinality(printer.at_call)

=============================================================================
